---- MODULE Spec2Model ----
(***************************************************************************)
(* Model of the SVG atlas generator, src/assets/ui/script.py.              *)
(*                                                                         *)
(* File names are sequences of character codes, so that Python's string    *)
(* order (by code point) can be computed, and paths are sequences of such  *)
(* names.  A directory is its path with the set of the file names in it;   *)
(* an output folder is a record of the files the script has written there. *)
(***************************************************************************)
EXTENDS Integers, Sequences, FiniteSets, TLC

VARIABLES
    tree,     \* the directories os.walk finds, in its order, with their files
    out,      \* the output folders, by path <project_root>/<slug>
    pc,       \* "idle" | "folder" | "loop" | "done" | "crashed": where main() is
    fi,       \* position of main's loop in the vector folders
    si,       \* position of main's loop in ICON_SIZES
    run,      \* how many times the script has been started
    last,     \* the last create_texture_atlas call: run, folder, size, outcome
    started,  \* the jobs <<folder, size>> started in this run
    clean,    \* nothing has raised in any run so far
    probe     \* input and output of a function applied on its own

vars == <<tree, out, pc, fi, si, run, last, started, clean, probe>>

(***************************************************************************)
(* Bounds                                                                  *)
(***************************************************************************)
MaxRuns == 2     \* starts of the script
MaxCount == 23   \* icons handed to the layout
MaxCols == 20    \* columns handed to the layout
MaxSize == 2     \* icon sizes 1..MaxSize handed to the layout
MaxSide == 2     \* side of the images handed to the white pass

(***************************************************************************)
(* Configuration (script.py lines 42-44)                                   *)
(***************************************************************************)
ICON_SIZES == <<16, 24, 32, 64>>
GRID_COLS == 20

SizeSet == {ICON_SIZES[i] : i \in DOMAIN ICON_SIZES}

(***************************************************************************)
(* Strings                                                                 *)
(***************************************************************************)
SvgExt == <<46, 115, 118, 103>>            \* ".svg"

\* Python's str.__lt__: lexicographic by code point.
RECURSIVE StrLess(_, _)
StrLess(a, b) ==
    IF b = <<>> THEN FALSE
    ELSE IF a = <<>> THEN TRUE
    ELSE IF Head(a) # Head(b) THEN Head(a) < Head(b)
    ELSE StrLess(Tail(a), Tail(b))

EndsWith(s, t) ==
    /\ Len(s) >= Len(t)
    /\ SubSeq(s, Len(s) - Len(t) + 1, Len(s)) = t

\* str.rfind("."), 0-based, -1 when there is none.
RFindDot(s) ==
    LET dots == {i \in 1..Len(s) : s[i] = 46}
    IN IF dots = {} THEN -1 ELSE (CHOOSE i \in dots : \A j \in dots : j <= i) - 1

\* PurePath.stem: the name without its last suffix; a name whose only dot is
\* its first or its last character has no suffix.
Stem(name) ==
    LET i == RFindDot(name)
    IN IF 0 < i /\ i < Len(name) - 1 THEN SubSeq(name, 1, i) ELSE name

\* svg_folder.glob("*.svg"): the names fnmatch accepts for "*.svg".
Glob(names) == {n \in names : EndsWith(n, SvgExt)}

\* A mutant of SortPaths: the files ordered by their stems.
RECURSIVE SortByStem(_)
SortByStem(S) ==
    IF S = {} THEN <<>>
    ELSE LET m == CHOOSE x \in S : \A y \in S \ {x} : ~StrLess(Stem(y), Stem(x))
         IN <<m>> \o SortByStem(S \ {m})

\* sorted(paths): the paths of one folder compare by their file names.
RECURSIVE SortPaths(_)
SortPaths(S) ==
    IF S = {} THEN <<>>
    ELSE LET m == CHOOSE x \in S : \A y \in S \ {x} : StrLess(x, y)
         IN <<m>> \o SortPaths(S \ {m})

(***************************************************************************)
(* Grid layout (create_texture_atlas, lines 96-105)                        *)
(***************************************************************************)
\* A mutant of GridRows: floor instead of ceiling.
GridRowsFloor(total_icons, cols) == total_icons \div cols

\* math.ceil(total_icons / GRID_COLS)
GridRows(total_icons, cols) ==
    IF total_icons % cols = 0 THEN total_icons \div cols
    ELSE total_icons \div cols + 1

Col(idx, cols) == idx % cols

\* A mutant of Row: the row computed from one column too many.
RowWide(idx, cols) == idx \div (cols + 1)

Row(idx, cols) == idx \div cols

\* x, y = col * icon_size, row * icon_size
PasteOrigin(idx, cols, icon_size) ==
    <<Col(idx, cols) * icon_size, Row(idx, cols) * icon_size>>

\* atlas_w, atlas_h
AtlasSize(total_icons, cols, icon_size) ==
    <<cols * icon_size, GridRows(total_icons, cols) * icon_size>>

\* The fields of the line appended to mapping_lines for svg_files[idx] (idx
\* is 0-based).
MappingLine(idx, svg_file, cols) ==
    [idx |-> idx, name |-> Stem(svg_file),
     col |-> Col(idx, cols), row |-> Row(idx, cols)]

\* str(n) of a natural number.
RECURSIVE Digits(_)
Digits(n) ==
    IF n < 10 THEN <<48 + n>> ELSE Digits(n \div 10) \o <<48 + (n % 10)>>

\* The format 3d: right-aligned in three columns.
Pad3(s) == IF Len(s) >= 3 THEN s ELSE [k \in 1..3 - Len(s) |-> 32] \o s

\* f"{idx:3d}\t{svg_file.stem}\t{col}\t{row}\n", line 109.
FormatLine(l) ==
    Pad3(Digits(l.idx)) \o <<9>> \o l.name \o <<9>> \o Digits(l.col)
        \o <<9>> \o Digits(l.row) \o <<10>>

\* What svg_to_white_png returns for a file it can render: a size x size
\* raster of that file.
Raster(svg_file, icon_size) ==
    [file |-> svg_file, w |-> icon_size, h |-> icon_size]

\* The loop of lines 103-109: the pastes onto the canvas and the mapping
\* lines, both in the order of svg_files.
Pastes(svg_files, cols, icon_size) ==
    [k \in 1..Len(svg_files) |->
        [at |-> PasteOrigin(k - 1, cols, icon_size),
         img |-> Raster(svg_files[k], icon_size)]]

MappingLines(svg_files, cols) ==
    [k \in 1..Len(svg_files) |-> MappingLine(k - 1, svg_files[k], cols)]

(***************************************************************************)
(* The output folder                                                       *)
(***************************************************************************)
NoFolder == [exists |-> FALSE, atlases |-> {}, indexes |-> {}]

\* Lines 92-94: no SVG in the folder; the print of line 93 may raise.
SkipJob(o, fault) ==
    [outcome |-> IF fault = "print" THEN "print_error" ELSE "skip", out |-> o]

\* output_folder.mkdir(parents=True, exist_ok=True)
Mkdir(o) == [o EXCEPT !.exists = TRUE]

\* atlas.save(atlas_path): the file texture_atlas_<cols>x<rows>_<size>px.png,
\* replacing a file of that name.
SaveAtlas(o, cols, rows, icon_size, canvas, pastes, job) ==
    LET f == [cols |-> cols, rows |-> rows, size |-> icon_size,
              canvas |-> canvas, pastes |-> pastes, readable |-> TRUE,
              job |-> job]
        same(g) == g.cols = cols /\ g.rows = rows /\ g.size = icon_size
    IN [o EXCEPT !.atlases = {g \in @ : ~same(g)} \cup {f}]

\* atlas.save(atlas_path) failing after the file was opened for writing: a
\* file of that name no image can be read from.
SavePartialAtlas(o, cols, rows, icon_size, job) ==
    LET f == [cols |-> cols, rows |-> rows, size |-> icon_size,
              canvas |-> <<0, 0>>, pastes |-> <<>>, readable |-> FALSE,
              job |-> job]
        same(g) == g.cols = cols /\ g.rows = rows /\ g.size = icon_size
    IN [o EXCEPT !.atlases = {g \in @ : ~same(g)} \cup {f}]

\* The texts of lines 120-123.
TitleText ==
    <<35, 32, 84, 101, 120, 116, 117, 114, 101, 32, 65, 116, 108, 97, 115, 32,
      77, 97, 112, 112, 105, 110, 103, 10>>      \* "# Texture Atlas Mapping\n"
ResolutionLabel ==
    <<35, 32, 65, 117, 102, 108, 246, 115, 117, 110, 103, 32, 40, 112, 120,
      41, 58, 32>>                               \* "# Auflösung (px): "
ColumnsLabel == <<35, 32, 83, 112, 97, 108, 116, 101, 110, 58, 32>>  \* "# Spalten: "
RowsLabel == <<32, 32, 90, 101, 105, 108, 101, 110, 58, 32>>         \* "  Zeilen: "
FormatText ==
    <<35, 32, 70, 111, 114, 109, 97, 116, 58, 32, 73, 68, 9, 78, 97, 109, 101,
      9, 67, 111, 108, 9, 82, 111, 119, 10>>     \* "# Format: ID\tName\tCol\tRow\n"

\* The four writes of lines 120-123.
IndexHeader(cols, rows, icon_size) ==
    TitleText \o ResolutionLabel \o Digits(icon_size) \o <<10>>
        \o ColumnsLabel \o Digits(cols) \o RowsLabel \o Digits(rows) \o <<10>>
        \o FormatText

\* "".join(mapping_lines)
RECURSIVE Join(_)
Join(lines) ==
    IF lines = <<>> THEN <<>>
    ELSE IF Len(lines) = 1 THEN FormatLine(lines[1])
    ELSE LET half == Len(lines) \div 2
         IN Join(SubSeq(lines, 1, half)) \o Join(SubSeq(lines, half + 1, Len(lines)))

\* encoding="utf-8": the bytes of one code point and of a text.
Utf8Char(c) ==
    IF c < 128 THEN <<c>>
    ELSE IF c < 2048 THEN <<192 + (c \div 64), 128 + (c % 64)>>
    ELSE IF c < 65536
         THEN <<224 + (c \div 4096), 128 + ((c \div 64) % 64), 128 + (c % 64)>>
    ELSE <<240 + (c \div 262144), 128 + ((c \div 4096) % 64),
           128 + ((c \div 64) % 64), 128 + (c % 64)>>

RECURSIVE Utf8(_)
Utf8(s) ==
    IF s = <<>> THEN <<>>
    ELSE IF Len(s) = 1 THEN Utf8Char(s[1])
    ELSE LET half == Len(s) \div 2
         IN Utf8(SubSeq(s, 1, half)) \o Utf8(SubSeq(s, half + 1, Len(s)))

\* The encoder raises UnicodeEncodeError on a surrogate code (a file name the
\* file system could not decode).
Encodable(s) == \A k \in 1..Len(s) : s[k] \notin 55296..57343

\* The bytes the five writes of lines 120-124 send to the mapping file.
IndexBytes(cols, rows, icon_size, lines) ==
    Utf8(IndexHeader(cols, rows, icon_size)) \o Utf8(Join(lines))

\* map_path.open("w") with every write done: icon_mapping_<size>px.txt.
WriteIndex(o, cols, rows, icon_size, lines, job) ==
    LET f == [size |-> icon_size,
              bytes |-> IndexBytes(cols, rows, icon_size, lines),
              complete |-> TRUE, job |-> job]
    IN [o EXCEPT !.indexes = {g \in @ : g.size # icon_size} \cup {f}]

\* map_path.open("w") truncates the file; the writes are buffered and reach
\* the file when the with block closes it.  A device that takes room bytes
\* and then fails leaves the first room bytes of the text, and the with block
\* raises.
TruncateIndex(o, cols, rows, icon_size, lines, room, job) ==
    LET f == [size |-> icon_size,
              bytes |-> SubSeq(IndexBytes(cols, rows, icon_size, lines), 1, room),
              complete |-> FALSE, job |-> job]
    IN [o EXCEPT !.indexes = {g \in @ : g.size # icon_size} \cup {f}]

\* The write of line 124 raises UnicodeEncodeError before any of its text is
\* buffered; closing the file flushes the header, of which a device that
\* takes room bytes and then fails keeps the first room bytes.
HeaderOnlyIndex(o, cols, rows, icon_size, room, job) ==
    LET header == Utf8(IndexHeader(cols, rows, icon_size))
        f == [size |-> icon_size,
              bytes |-> IF room < Len(header) THEN SubSeq(header, 1, room)
                        ELSE header,
              complete |-> FALSE, job |-> job]
    IN [o EXCEPT !.indexes = {g \in @ : g.size # icon_size} \cup {f}]

\* What may be refused during one call: the mkdir; the save, before the atlas
\* file is opened or while it is written; the open or the writes of the
\* mapping file; a print to stdout (UnicodeEncodeError on a stdout that cannot
\* encode the signs of lines 93 and 126, a closed pipe).
Faults ==
    {"none", "mkdir", "atlas_open", "atlas_write", "index_open", "index_write",
     "print"}

\* The bytes a device takes of the mapping file before its writes fail, as
\* tried by main: none, a cut inside the header (inside the two bytes of one
\* letter), the header, the header and one line, a cut inside a line.
Rooms == {0, 31, 97, 109, 114}

\* create_texture_atlas(svg_folder, output_folder, icon_size): its outcome and
\* the output folder it leaves.  folder is the content of svg_folder, bad the
\* files the renderer raises on, fault what is refused, room the bytes the
\* device takes of the mapping file when its writes are what is refused, job
\* the call's tag on the files it writes.
create_texture_atlas(folder, bad, o, icon_size, fault, room, job) ==
    LET svg_files == SortPaths(Glob(folder))
        total_icons == Len(svg_files)
        grid_rows == GridRows(total_icons, GRID_COLS)
        canvas == AtlasSize(total_icons, GRID_COLS, icon_size)
        pastes == Pastes(svg_files, GRID_COLS, icon_size)
        mapping_lines == MappingLines(svg_files, GRID_COLS)
        o1 == Mkdir(o)
        o2 == SaveAtlas(o1, GRID_COLS, grid_rows, icon_size, canvas, pastes, job)
        o3 == WriteIndex(o2, GRID_COLS, grid_rows, icon_size, mapping_lines, job)
    IN IF svg_files = <<>> THEN SkipJob(o, fault)
       ELSE IF \E k \in 1..total_icons : svg_files[k] \in bad
            THEN [outcome |-> "render_error", out |-> o]
       ELSE IF fault = "mkdir" /\ ~o.exists
            THEN [outcome |-> "mkdir_error", out |-> o]
       ELSE IF fault = "atlas_open"
            THEN [outcome |-> "atlas_error", out |-> o1]
       ELSE IF fault = "atlas_write"
            THEN [outcome |-> "atlas_error",
                  out |-> SavePartialAtlas(o1, GRID_COLS, grid_rows, icon_size, job)]
       ELSE IF fault = "index_open"
            THEN [outcome |-> "index_error", out |-> o2]
       ELSE IF ~Encodable(Join(mapping_lines))
            THEN [outcome |-> "index_error",
                  out |-> HeaderOnlyIndex(
                            o2, GRID_COLS, grid_rows, icon_size,
                            IF fault = "index_write" THEN room
                            ELSE Len(Utf8(IndexHeader(GRID_COLS, grid_rows, icon_size))),
                            job)]
       ELSE IF /\ fault = "index_write"
               /\ room < Len(IndexBytes(GRID_COLS, grid_rows, icon_size, mapping_lines))
            THEN [outcome |-> "index_error",
                  out |-> TruncateIndex(o2, GRID_COLS, grid_rows, icon_size,
                                        mapping_lines, room, job)]
       ELSE IF fault = "print"
            THEN [outcome |-> "print_error", out |-> o3]
       ELSE [outcome |-> "ok", out |-> o3]

Raised(outcome) == outcome \notin {"ok", "skip"}

(***************************************************************************)
(* Paths and slugs (lines 47-60, 134-145)                                  *)
(***************************************************************************)
Controll == <<99, 111, 110, 116, 114, 111, 108, 108>>    \* "controll"
Icons == <<105, 99, 111, 110, 115>>                      \* "icons"
Source == <<115, 111, 117, 114, 99, 101>>                \* "source"
Vector == <<86, 101, 99, 116, 111, 114>>                 \* "Vector"
VectorLower == <<118, 101, 99, 116, 111, 114>>           \* "vector"

SOURCE_ROOTS == << <<Controll, Source>>, <<Icons, Source>> >>

InRanges(c, ranges) == \E r \in ranges : r[1] <= c /\ c <= r[2]

\* The lowercase mappings of str.lower() to one code point, as
\* <<first, last, step, delta>>: every step-th code from first to last maps to
\* itself plus delta.
LowerRules ==
    {
     <<65, 90, 1, 32>>, <<192, 214, 1, 32>>, <<216, 222, 1, 32>>, <<256, 302, 2, 1>>,
     <<306, 310, 2, 1>>, <<313, 327, 2, 1>>, <<330, 374, 2, 1>>, <<376, 376, 1, -121>>,
     <<377, 381, 2, 1>>, <<385, 385, 1, 210>>, <<386, 388, 2, 1>>, <<390, 390, 1, 206>>,
     <<391, 391, 1, 1>>, <<393, 394, 1, 205>>, <<395, 395, 1, 1>>, <<398, 398, 1, 79>>,
     <<399, 399, 1, 202>>, <<400, 400, 1, 203>>, <<401, 401, 1, 1>>, <<403, 403, 1, 205>>,
     <<404, 404, 1, 207>>, <<406, 406, 1, 211>>, <<407, 407, 1, 209>>, <<408, 408, 1, 1>>,
     <<412, 412, 1, 211>>, <<413, 413, 1, 213>>, <<415, 415, 1, 214>>, <<416, 420, 2, 1>>,
     <<422, 422, 1, 218>>, <<423, 423, 1, 1>>, <<425, 425, 1, 218>>, <<428, 428, 1, 1>>,
     <<430, 430, 1, 218>>, <<431, 431, 1, 1>>, <<433, 434, 1, 217>>, <<435, 437, 2, 1>>,
     <<439, 439, 1, 219>>, <<440, 440, 1, 1>>, <<444, 444, 1, 1>>, <<452, 452, 1, 2>>,
     <<453, 453, 1, 1>>, <<455, 455, 1, 2>>, <<456, 456, 1, 1>>, <<458, 458, 1, 2>>,
     <<459, 475, 2, 1>>, <<478, 494, 2, 1>>, <<497, 497, 1, 2>>, <<498, 500, 2, 1>>,
     <<502, 502, 1, -97>>, <<503, 503, 1, -56>>, <<504, 542, 2, 1>>, <<544, 544, 1, -130>>,
     <<546, 562, 2, 1>>, <<570, 570, 1, 10795>>, <<571, 571, 1, 1>>, <<573, 573, 1, -163>>,
     <<574, 574, 1, 10792>>, <<577, 577, 1, 1>>, <<579, 579, 1, -195>>, <<580, 580, 1, 69>>,
     <<581, 581, 1, 71>>, <<582, 590, 2, 1>>, <<880, 882, 2, 1>>, <<886, 886, 1, 1>>,
     <<895, 895, 1, 116>>, <<902, 902, 1, 38>>, <<904, 906, 1, 37>>, <<908, 908, 1, 64>>,
     <<910, 911, 1, 63>>, <<913, 929, 1, 32>>, <<931, 939, 1, 32>>, <<975, 975, 1, 8>>,
     <<984, 1006, 2, 1>>, <<1012, 1012, 1, -60>>, <<1015, 1015, 1, 1>>, <<1017, 1017, 1, -7>>,
     <<1018, 1018, 1, 1>>, <<1021, 1023, 1, -130>>, <<1024, 1039, 1, 80>>, <<1040, 1071, 1, 32>>,
     <<1120, 1152, 2, 1>>, <<1162, 1214, 2, 1>>, <<1216, 1216, 1, 15>>, <<1217, 1229, 2, 1>>,
     <<1232, 1326, 2, 1>>, <<1329, 1366, 1, 48>>, <<4256, 4293, 1, 7264>>, <<4295, 4295, 1, 7264>>,
     <<4301, 4301, 1, 7264>>, <<5024, 5103, 1, 38864>>, <<5104, 5109, 1, 8>>, <<7312, 7354, 1, -3008>>,
     <<7357, 7359, 1, -3008>>, <<7680, 7828, 2, 1>>, <<7838, 7838, 1, -7615>>, <<7840, 7934, 2, 1>>,
     <<7944, 7951, 1, -8>>, <<7960, 7965, 1, -8>>, <<7976, 7983, 1, -8>>, <<7992, 7999, 1, -8>>,
     <<8008, 8013, 1, -8>>, <<8025, 8031, 2, -8>>, <<8040, 8047, 1, -8>>, <<8072, 8079, 1, -8>>,
     <<8088, 8095, 1, -8>>, <<8104, 8111, 1, -8>>, <<8120, 8121, 1, -8>>, <<8122, 8123, 1, -74>>,
     <<8124, 8124, 1, -9>>, <<8136, 8139, 1, -86>>, <<8140, 8140, 1, -9>>, <<8152, 8153, 1, -8>>,
     <<8154, 8155, 1, -100>>, <<8168, 8169, 1, -8>>, <<8170, 8171, 1, -112>>, <<8172, 8172, 1, -7>>,
     <<8184, 8185, 1, -128>>, <<8186, 8187, 1, -126>>, <<8188, 8188, 1, -9>>, <<8486, 8486, 1, -7517>>,
     <<8490, 8490, 1, -8383>>, <<8491, 8491, 1, -8262>>, <<8498, 8498, 1, 28>>, <<8544, 8559, 1, 16>>,
     <<8579, 8579, 1, 1>>, <<9398, 9423, 1, 26>>, <<11264, 11311, 1, 48>>, <<11360, 11360, 1, 1>>,
     <<11362, 11362, 1, -10743>>, <<11363, 11363, 1, -3814>>, <<11364, 11364, 1, -10727>>, <<11367, 11371, 2, 1>>,
     <<11373, 11373, 1, -10780>>, <<11374, 11374, 1, -10749>>, <<11375, 11375, 1, -10783>>, <<11376, 11376, 1, -10782>>,
     <<11378, 11378, 1, 1>>, <<11381, 11381, 1, 1>>, <<11390, 11391, 1, -10815>>, <<11392, 11490, 2, 1>>,
     <<11499, 11501, 2, 1>>, <<11506, 11506, 1, 1>>, <<42560, 42604, 2, 1>>, <<42624, 42650, 2, 1>>,
     <<42786, 42798, 2, 1>>, <<42802, 42862, 2, 1>>, <<42873, 42875, 2, 1>>, <<42877, 42877, 1, -35332>>,
     <<42878, 42886, 2, 1>>, <<42891, 42891, 1, 1>>, <<42893, 42893, 1, -42280>>, <<42896, 42898, 2, 1>>,
     <<42902, 42920, 2, 1>>, <<42922, 42922, 1, -42308>>, <<42923, 42923, 1, -42319>>, <<42924, 42924, 1, -42315>>,
     <<42925, 42925, 1, -42305>>, <<42926, 42926, 1, -42308>>, <<42928, 42928, 1, -42258>>, <<42929, 42929, 1, -42282>>,
     <<42930, 42930, 1, -42261>>, <<42931, 42931, 1, 928>>, <<42932, 42946, 2, 1>>, <<42948, 42948, 1, -48>>,
     <<42949, 42949, 1, -42307>>, <<42950, 42950, 1, -35384>>, <<42951, 42953, 2, 1>>, <<42960, 42960, 1, 1>>,
     <<42966, 42968, 2, 1>>, <<42997, 42997, 1, 1>>, <<65313, 65338, 1, 32>>, <<66560, 66599, 1, 40>>,
     <<66736, 66771, 1, 40>>, <<66928, 66938, 1, 39>>, <<66940, 66954, 1, 39>>, <<66956, 66962, 1, 39>>,
     <<66964, 66965, 1, 39>>, <<68736, 68786, 1, 64>>, <<71840, 71871, 1, 32>>, <<93760, 93791, 1, 32>>,
     <<125184, 125217, 1, 34>>
    }

\* The code points str.lower() skips when it looks around a capital sigma
\* (Case_Ignorable), as <<first, last>>.
CaseIgnorableRanges ==
    {
     <<39, 39>>, <<46, 46>>, <<58, 58>>, <<94, 94>>, <<96, 96>>,
     <<168, 168>>, <<173, 173>>, <<175, 175>>, <<180, 180>>, <<183, 184>>,
     <<688, 879>>, <<884, 885>>, <<890, 890>>, <<900, 901>>, <<903, 903>>,
     <<1155, 1161>>, <<1369, 1369>>, <<1375, 1375>>, <<1425, 1469>>, <<1471, 1471>>,
     <<1473, 1474>>, <<1476, 1477>>, <<1479, 1479>>, <<1524, 1524>>, <<1536, 1541>>,
     <<1552, 1562>>, <<1564, 1564>>, <<1600, 1600>>, <<1611, 1631>>, <<1648, 1648>>,
     <<1750, 1757>>, <<1759, 1768>>, <<1770, 1773>>, <<1807, 1807>>, <<1809, 1809>>,
     <<1840, 1866>>, <<1958, 1968>>, <<2027, 2037>>, <<2042, 2042>>, <<2045, 2045>>,
     <<2070, 2093>>, <<2137, 2139>>, <<2184, 2184>>, <<2192, 2193>>, <<2200, 2207>>,
     <<2249, 2306>>, <<2362, 2362>>, <<2364, 2364>>, <<2369, 2376>>, <<2381, 2381>>,
     <<2385, 2391>>, <<2402, 2403>>, <<2417, 2417>>, <<2433, 2433>>, <<2492, 2492>>,
     <<2497, 2500>>, <<2509, 2509>>, <<2530, 2531>>, <<2558, 2558>>, <<2561, 2562>>,
     <<2620, 2620>>, <<2625, 2626>>, <<2631, 2632>>, <<2635, 2637>>, <<2641, 2641>>,
     <<2672, 2673>>, <<2677, 2677>>, <<2689, 2690>>, <<2748, 2748>>, <<2753, 2757>>,
     <<2759, 2760>>, <<2765, 2765>>, <<2786, 2787>>, <<2810, 2815>>, <<2817, 2817>>,
     <<2876, 2876>>, <<2879, 2879>>, <<2881, 2884>>, <<2893, 2893>>, <<2901, 2902>>,
     <<2914, 2915>>, <<2946, 2946>>, <<3008, 3008>>, <<3021, 3021>>, <<3072, 3072>>,
     <<3076, 3076>>, <<3132, 3132>>, <<3134, 3136>>, <<3142, 3144>>, <<3146, 3149>>,
     <<3157, 3158>>, <<3170, 3171>>, <<3201, 3201>>, <<3260, 3260>>, <<3263, 3263>>,
     <<3270, 3270>>, <<3276, 3277>>, <<3298, 3299>>, <<3328, 3329>>, <<3387, 3388>>,
     <<3393, 3396>>, <<3405, 3405>>, <<3426, 3427>>, <<3457, 3457>>, <<3530, 3530>>,
     <<3538, 3540>>, <<3542, 3542>>, <<3633, 3633>>, <<3636, 3642>>, <<3654, 3662>>,
     <<3761, 3761>>, <<3764, 3772>>, <<3782, 3782>>, <<3784, 3789>>, <<3864, 3865>>,
     <<3893, 3893>>, <<3895, 3895>>, <<3897, 3897>>, <<3953, 3966>>, <<3968, 3972>>,
     <<3974, 3975>>, <<3981, 3991>>, <<3993, 4028>>, <<4038, 4038>>, <<4141, 4144>>,
     <<4146, 4151>>, <<4153, 4154>>, <<4157, 4158>>, <<4184, 4185>>, <<4190, 4192>>,
     <<4209, 4212>>, <<4226, 4226>>, <<4229, 4230>>, <<4237, 4237>>, <<4253, 4253>>,
     <<4348, 4348>>, <<4957, 4959>>, <<5906, 5908>>, <<5938, 5939>>, <<5970, 5971>>,
     <<6002, 6003>>, <<6068, 6069>>, <<6071, 6077>>, <<6086, 6086>>, <<6089, 6099>>,
     <<6103, 6103>>, <<6109, 6109>>, <<6155, 6159>>, <<6211, 6211>>, <<6277, 6278>>,
     <<6313, 6313>>, <<6432, 6434>>, <<6439, 6440>>, <<6450, 6450>>, <<6457, 6459>>,
     <<6679, 6680>>, <<6683, 6683>>, <<6742, 6742>>, <<6744, 6750>>, <<6752, 6752>>,
     <<6754, 6754>>, <<6757, 6764>>, <<6771, 6780>>, <<6783, 6783>>, <<6823, 6823>>,
     <<6832, 6862>>, <<6912, 6915>>, <<6964, 6964>>, <<6966, 6970>>, <<6972, 6972>>,
     <<6978, 6978>>, <<7019, 7027>>, <<7040, 7041>>, <<7074, 7077>>, <<7080, 7081>>,
     <<7083, 7085>>, <<7142, 7142>>, <<7144, 7145>>, <<7149, 7149>>, <<7151, 7153>>,
     <<7212, 7219>>, <<7222, 7223>>, <<7288, 7293>>, <<7376, 7378>>, <<7380, 7392>>,
     <<7394, 7400>>, <<7405, 7405>>, <<7412, 7412>>, <<7416, 7417>>, <<7468, 7530>>,
     <<7544, 7544>>, <<7579, 7679>>, <<8125, 8125>>, <<8127, 8129>>, <<8141, 8143>>,
     <<8157, 8159>>, <<8173, 8175>>, <<8189, 8190>>, <<8203, 8207>>, <<8216, 8217>>,
     <<8228, 8228>>, <<8231, 8231>>, <<8234, 8238>>, <<8288, 8292>>, <<8294, 8303>>,
     <<8305, 8305>>, <<8319, 8319>>, <<8336, 8348>>, <<8400, 8432>>, <<11388, 11389>>,
     <<11503, 11505>>, <<11631, 11631>>, <<11647, 11647>>, <<11744, 11775>>, <<11823, 11823>>,
     <<12293, 12293>>, <<12330, 12333>>, <<12337, 12341>>, <<12347, 12347>>, <<12441, 12446>>,
     <<12540, 12542>>, <<40981, 40981>>, <<42232, 42237>>, <<42508, 42508>>, <<42607, 42610>>,
     <<42612, 42621>>, <<42623, 42623>>, <<42652, 42655>>, <<42736, 42737>>, <<42752, 42785>>,
     <<42864, 42864>>, <<42888, 42890>>, <<42994, 42996>>, <<43000, 43001>>, <<43010, 43010>>,
     <<43014, 43014>>, <<43019, 43019>>, <<43045, 43046>>, <<43052, 43052>>, <<43204, 43205>>,
     <<43232, 43249>>, <<43263, 43263>>, <<43302, 43309>>, <<43335, 43345>>, <<43392, 43394>>,
     <<43443, 43443>>, <<43446, 43449>>, <<43452, 43453>>, <<43471, 43471>>, <<43493, 43494>>,
     <<43561, 43566>>, <<43569, 43570>>, <<43573, 43574>>, <<43587, 43587>>, <<43596, 43596>>,
     <<43632, 43632>>, <<43644, 43644>>, <<43696, 43696>>, <<43698, 43700>>, <<43703, 43704>>,
     <<43710, 43711>>, <<43713, 43713>>, <<43741, 43741>>, <<43756, 43757>>, <<43763, 43764>>,
     <<43766, 43766>>, <<43867, 43871>>, <<43881, 43883>>, <<44005, 44005>>, <<44008, 44008>>,
     <<44013, 44013>>, <<64286, 64286>>, <<64434, 64450>>, <<65024, 65039>>, <<65043, 65043>>,
     <<65056, 65071>>, <<65106, 65106>>, <<65109, 65109>>, <<65279, 65279>>, <<65287, 65287>>,
     <<65294, 65294>>, <<65306, 65306>>, <<65342, 65342>>, <<65344, 65344>>, <<65392, 65392>>,
     <<65438, 65439>>, <<65507, 65507>>, <<65529, 65531>>, <<66045, 66045>>, <<66272, 66272>>,
     <<66422, 66426>>, <<67456, 67461>>, <<67463, 67504>>, <<67506, 67514>>, <<68097, 68099>>,
     <<68101, 68102>>, <<68108, 68111>>, <<68152, 68154>>, <<68159, 68159>>, <<68325, 68326>>,
     <<68900, 68903>>, <<69291, 69292>>, <<69446, 69456>>, <<69506, 69509>>, <<69633, 69633>>,
     <<69688, 69702>>, <<69744, 69744>>, <<69747, 69748>>, <<69759, 69761>>, <<69811, 69814>>,
     <<69817, 69818>>, <<69821, 69821>>, <<69826, 69826>>, <<69837, 69837>>, <<69888, 69890>>,
     <<69927, 69931>>, <<69933, 69940>>, <<70003, 70003>>, <<70016, 70017>>, <<70070, 70078>>,
     <<70089, 70092>>, <<70095, 70095>>, <<70191, 70193>>, <<70196, 70196>>, <<70198, 70199>>,
     <<70206, 70206>>, <<70367, 70367>>, <<70371, 70378>>, <<70400, 70401>>, <<70459, 70460>>,
     <<70464, 70464>>, <<70502, 70508>>, <<70512, 70516>>, <<70712, 70719>>, <<70722, 70724>>,
     <<70726, 70726>>, <<70750, 70750>>, <<70835, 70840>>, <<70842, 70842>>, <<70847, 70848>>,
     <<70850, 70851>>, <<71090, 71093>>, <<71100, 71101>>, <<71103, 71104>>, <<71132, 71133>>,
     <<71219, 71226>>, <<71229, 71229>>, <<71231, 71232>>, <<71339, 71339>>, <<71341, 71341>>,
     <<71344, 71349>>, <<71351, 71351>>, <<71453, 71455>>, <<71458, 71461>>, <<71463, 71467>>,
     <<71727, 71735>>, <<71737, 71738>>, <<71995, 71996>>, <<71998, 71998>>, <<72003, 72003>>,
     <<72148, 72151>>, <<72154, 72155>>, <<72160, 72160>>, <<72193, 72202>>, <<72243, 72248>>,
     <<72251, 72254>>, <<72263, 72263>>, <<72273, 72278>>, <<72281, 72283>>, <<72330, 72342>>,
     <<72344, 72345>>, <<72752, 72758>>, <<72760, 72765>>, <<72767, 72767>>, <<72850, 72871>>,
     <<72874, 72880>>, <<72882, 72883>>, <<72885, 72886>>, <<73009, 73014>>, <<73018, 73018>>,
     <<73020, 73021>>, <<73023, 73029>>, <<73031, 73031>>, <<73104, 73105>>, <<73109, 73109>>,
     <<73111, 73111>>, <<73459, 73460>>, <<78896, 78904>>, <<92912, 92916>>, <<92976, 92982>>,
     <<92992, 92995>>, <<94031, 94031>>, <<94095, 94111>>, <<94176, 94177>>, <<94179, 94180>>,
     <<110576, 110579>>, <<110581, 110587>>, <<110589, 110590>>, <<113821, 113822>>, <<113824, 113827>>,
     <<118528, 118573>>, <<118576, 118598>>, <<119143, 119145>>, <<119155, 119170>>, <<119173, 119179>>,
     <<119210, 119213>>, <<119362, 119364>>, <<121344, 121398>>, <<121403, 121452>>, <<121461, 121461>>,
     <<121476, 121476>>, <<121499, 121503>>, <<121505, 121519>>, <<122880, 122886>>, <<122888, 122904>>,
     <<122907, 122913>>, <<122915, 122916>>, <<122918, 122922>>, <<123184, 123197>>, <<123566, 123566>>,
     <<123628, 123631>>, <<125136, 125142>>, <<125252, 125259>>, <<127995, 127999>>, <<917505, 917505>>,
     <<917536, 917631>>, <<917760, 917999>>
    }

\* The cased code points among those not skipped, as <<first, last>>.
CasedRanges ==
    {
     <<65, 90>>, <<97, 122>>, <<170, 170>>, <<181, 181>>, <<186, 186>>,
     <<192, 214>>, <<216, 246>>, <<248, 442>>, <<444, 447>>, <<452, 659>>,
     <<661, 687>>, <<880, 883>>, <<886, 887>>, <<891, 893>>, <<895, 895>>,
     <<902, 902>>, <<904, 906>>, <<908, 908>>, <<910, 929>>, <<931, 1013>>,
     <<1015, 1153>>, <<1162, 1327>>, <<1329, 1366>>, <<1376, 1416>>, <<4256, 4293>>,
     <<4295, 4295>>, <<4301, 4301>>, <<4304, 4346>>, <<4349, 4351>>, <<5024, 5109>>,
     <<5112, 5117>>, <<7296, 7304>>, <<7312, 7354>>, <<7357, 7359>>, <<7424, 7467>>,
     <<7531, 7543>>, <<7545, 7578>>, <<7680, 7957>>, <<7960, 7965>>, <<7968, 8005>>,
     <<8008, 8013>>, <<8016, 8023>>, <<8025, 8025>>, <<8027, 8027>>, <<8029, 8029>>,
     <<8031, 8061>>, <<8064, 8116>>, <<8118, 8124>>, <<8126, 8126>>, <<8130, 8132>>,
     <<8134, 8140>>, <<8144, 8147>>, <<8150, 8155>>, <<8160, 8172>>, <<8178, 8180>>,
     <<8182, 8188>>, <<8450, 8450>>, <<8455, 8455>>, <<8458, 8467>>, <<8469, 8469>>,
     <<8473, 8477>>, <<8484, 8484>>, <<8486, 8486>>, <<8488, 8488>>, <<8490, 8493>>,
     <<8495, 8500>>, <<8505, 8505>>, <<8508, 8511>>, <<8517, 8521>>, <<8526, 8526>>,
     <<8544, 8575>>, <<8579, 8580>>, <<9398, 9449>>, <<11264, 11387>>, <<11390, 11492>>,
     <<11499, 11502>>, <<11506, 11507>>, <<11520, 11557>>, <<11559, 11559>>, <<11565, 11565>>,
     <<42560, 42605>>, <<42624, 42651>>, <<42786, 42863>>, <<42865, 42887>>, <<42891, 42894>>,
     <<42896, 42954>>, <<42960, 42961>>, <<42963, 42963>>, <<42965, 42969>>, <<42997, 42998>>,
     <<43002, 43002>>, <<43824, 43866>>, <<43872, 43880>>, <<43888, 43967>>, <<64256, 64262>>,
     <<64275, 64279>>, <<65313, 65338>>, <<65345, 65370>>, <<66560, 66639>>, <<66736, 66771>>,
     <<66776, 66811>>, <<66928, 66938>>, <<66940, 66954>>, <<66956, 66962>>, <<66964, 66965>>,
     <<66967, 66977>>, <<66979, 66993>>, <<66995, 67001>>, <<67003, 67004>>, <<68736, 68786>>,
     <<68800, 68850>>, <<71840, 71903>>, <<93760, 93823>>, <<119808, 119892>>, <<119894, 119964>>,
     <<119966, 119967>>, <<119970, 119970>>, <<119973, 119974>>, <<119977, 119980>>, <<119982, 119993>>,
     <<119995, 119995>>, <<119997, 120003>>, <<120005, 120069>>, <<120071, 120074>>, <<120077, 120084>>,
     <<120086, 120092>>, <<120094, 120121>>, <<120123, 120126>>, <<120128, 120132>>, <<120134, 120134>>,
     <<120138, 120144>>, <<120146, 120485>>, <<120488, 120512>>, <<120514, 120538>>, <<120540, 120570>>,
     <<120572, 120596>>, <<120598, 120628>>, <<120630, 120654>>, <<120656, 120686>>, <<120688, 120712>>,
     <<120714, 120744>>, <<120746, 120770>>, <<120772, 120779>>, <<122624, 122633>>, <<122635, 122654>>,
     <<125184, 125251>>, <<127280, 127305>>, <<127312, 127337>>, <<127344, 127369>>
    }

\* The lowercase of one code point outside any context.
LowerChar(c) ==
    IF c < 128 THEN (IF c \in 65..90 THEN c + 32 ELSE c)
    ELSE LET hit == {r \in LowerRules :
                        r[1] <= c /\ c <= r[2] /\ (c - r[1]) % r[3] = 0}
         IN IF hit = {} THEN c ELSE c + (CHOOSE r \in hit : TRUE)[4]

\* A capital sigma at s[k] is final: the nearest code before it that is not
\* skipped is cased, and the nearest one after it, if any, is not.
FinalSigma(s, k) ==
    LET before == {j \in 1..k - 1 : ~InRanges(s[j], CaseIgnorableRanges)}
        after == {j \in k + 1..Len(s) : ~InRanges(s[j], CaseIgnorableRanges)}
        prev == CHOOSE j \in before : \A h \in before : h <= j
        next == CHOOSE j \in after : \A h \in after : j <= h
    IN /\ before # {}
       /\ InRanges(s[prev], CasedRanges)
       /\ (after = {} \/ ~InRanges(s[next], CasedRanges))

RECURSIVE LowerFrom(_, _)
LowerFrom(s, k) ==
    IF k > Len(s) THEN <<>>
    ELSE (IF s[k] = 304 THEN <<105, 775>>
          ELSE IF s[k] = 931 THEN <<IF FinalSigma(s, k) THEN 962 ELSE 963>>
          ELSE <<LowerChar(s[k])>>)
         \o LowerFrom(s, k + 1)

\* str.lower()
Lower(s) == LowerFrom(s, 1)

RECURSIVE StripLeft(_, _)
StripLeft(s, C) ==
    IF s # <<>> /\ Head(s) \in C THEN StripLeft(Tail(s), C) ELSE s

RECURSIVE StripRight(_, _)
StripRight(s, C) ==
    IF s # <<>> /\ s[Len(s)] \in C THEN StripRight(SubSeq(s, 1, Len(s) - 1), C)
    ELSE s

\* str.strip(chars)
Strip(s, C) == StripRight(StripLeft(s, C), C)

\* What str.strip() removes: the code points str.isspace() holds for.
Whitespace ==
    (9..13) \cup (28..32) \cup {133, 160, 5760} \cup (8192..8202)
    \cup {8232, 8233, 8239, 8287, 12288}

\* [a-z0-9]
SlugChars == (97..122) \cup (48..57)

\* s without its leading codes outside [a-z0-9].
RECURSIVE DropNonSlug(_)
DropNonSlug(s) ==
    IF s # <<>> /\ Head(s) \notin SlugChars THEN DropNonSlug(Tail(s)) ELSE s

\* re.sub(r"[^a-z0-9]+", "_", s)
RECURSIVE Collapse(_)
Collapse(s) ==
    IF s = <<>> THEN <<>>
    ELSE IF Head(s) \in SlugChars THEN <<Head(s)>> \o Collapse(Tail(s))
    ELSE <<95>> \o Collapse(DropNonSlug(Tail(s)))

\* slugify(name), lines 56-60.
slugify(name) ==
    LET spaced == [k \in 1..Len(name) |->
                      IF name[k] \in {38, 47} THEN 32 ELSE name[k]]
    IN Strip(Collapse(Strip(Lower(spaced), Whitespace)), {95})

\* PurePath.name of a relative path; "" for ".".
Name(path) == IF path = <<>> THEN <<>> ELSE path[Len(path)]

\* PurePath.parent
Parent(path) == IF path = <<>> THEN <<>> ELSE SubSeq(path, 1, Len(path) - 1)

\* project_root_from_vector: the parent of the nearest ancestor named
\* "source", else the last of the parents ("."); "." itself has no parents
\* and parents[-1] raises IndexError.
project_root_from_vector(vector_dir) ==
    LET hits == {k \in 1..Len(vector_dir) - 1 : vector_dir[k] = Source}
    IN IF hits # {}
       THEN SubSeq(vector_dir, 1, (CHOOSE k \in hits : \A h \in hits : h <= k) - 1)
       ELSE IF vector_dir = <<>> THEN "IndexError"
       ELSE <<>>

\* atlas_out of lines 156-159.
AtlasOut(vector_dir) ==
    LET slug == slugify(Name(Parent(vector_dir)))
        project_root == project_root_from_vector(vector_dir)
    IN IF slug = <<>> THEN project_root ELSE Append(project_root, slug)

IsUnder(path, root) ==
    Len(path) >= Len(root) /\ SubSeq(path, 1, Len(root)) = root

\* iter_vector_folders(root) over the directories os.walk(root) yields.
iter_vector_folders(root, dirs) ==
    LET IsVector(d) == IsUnder(d.path, root) /\ Lower(Name(d.path)) = VectorLower
    IN SelectSeq(dirs, IsVector)

\* The vector folders main visits, in its order: for every source root that
\* exists, those iter_vector_folders yields (lines 152-155).
RECURSIVE VectorFoldersFrom(_, _)
VectorFoldersFrom(k, dirs) ==
    IF k > Len(SOURCE_ROOTS) THEN <<>>
    ELSE (IF \E d \in DOMAIN dirs : dirs[d].path = SOURCE_ROOTS[k]
          THEN iter_vector_folders(SOURCE_ROOTS[k], dirs) ELSE <<>>)
         \o VectorFoldersFrom(k + 1, dirs)

VectorFolders(dirs) == VectorFoldersFrom(1, dirs)

(***************************************************************************)
(* The source trees tried                                                  *)
(***************************************************************************)
\* The files a vector folder may hold: a.svg, a-b.svg, c.svg, d.svg, ...
PoolFile(i) ==
    IF i = 1 THEN <<97>> \o SvgExt
    ELSE IF i = 2 THEN <<97, 45, 98>> \o SvgExt
    ELSE <<96 + i>> \o SvgExt

Files(k) == {PoolFile(i) : i \in 1..k}

\* A file of the folder that is no SVG: a.png
OtherFile == <<97, 46, 112, 110, 103>>

\* A file cairosvg.svg2png raises on (malformed content): x.svg
BadFile == <<120>> \o SvgExt

Unrenderable == {BadFile}

\* The contents tried for a lone folder: no SVG, one row with another file,
\* one row with a malformed file, two rows.
SourceSets ==
    {{OtherFile}, Files(2) \cup {OtherFile}, Files(2) \cup {BadFile},
     Files(GRID_COLS + 1)}

CatA == <<67, 97, 116, 32, 65>>       \* category "Cat A"
CatB == <<99, 97, 116, 95, 97>>       \* category "cat_a", of the same slug

Dir(path) == [path |-> path, files |-> {}]

\* <root>/source with one category and its Vector folder holding S.
Category(root, cat, S) ==
    <<Dir(<<root, Source, cat>>),
      [path |-> <<root, Source, cat, Vector>>, files |-> S]>>

\* One category; two categories of one slug; one category under each root.
\* No source root at all is the tree <<>>.
OneFolder(S) == <<Dir(<<Controll, Source>>)>> \o Category(Controll, CatA, S)

SameSlug(S1, S2) == OneFolder(S1) \o Category(Controll, CatB, S2)

TwoRoots(S1, S2) ==
    OneFolder(S1) \o <<Dir(<<Icons, Source>>)>> \o Category(Icons, CatA, S2)

Trees ==
    {OneFolder(S) : S \in SourceSets}
    \cup {<<>>,
          SameSlug(Files(GRID_COLS), Files(GRID_COLS + 1)),
          TwoRoots(Files(2), {})}


\* The output folders the trees lead to.
OutPaths ==
    UNION {{AtlasOut(VectorFolders(t)[k].path) : k \in DOMAIN VectorFolders(t)} :
              t \in Trees}

NoProbe == [fn |-> "none"]

(***************************************************************************)
(* main() (lines 151-169)                                                  *)
(***************************************************************************)
Init ==
    /\ tree \in Trees
    /\ out = [p \in OutPaths |-> NoFolder]
    /\ pc = "idle"
    /\ fi = 1
    /\ si = 1
    /\ run = 0
    /\ last = [run |-> 0, fi |-> 0, size |-> 0, outcome |-> "none"]
    /\ started = {}
    /\ clean = TRUE
    /\ probe = NoProbe

\* The script is started; main returns at once when no vector folder is found.
StartMain ==
    /\ pc = "idle"
    /\ run < MaxRuns
    /\ run' = run + 1
    /\ pc' = IF VectorFolders(tree) = <<>> THEN "done" ELSE "folder"
    /\ fi' = 1
    /\ si' = 1
    /\ started' = {}
    /\ UNCHANGED <<tree, out, last, clean, probe>>

\* Lines 155-161: the next vector folder; the print of its heading may raise.
EnterFolder ==
    /\ pc = "folder"
    /\ \E printed \in BOOLEAN :
        /\ pc' = IF printed THEN "loop" ELSE "crashed"
        /\ clean' = (clean /\ printed)
    /\ si' = 1
    /\ UNCHANGED <<tree, out, fi, run, last, started, probe>>

\* One pass of "for size in ICON_SIZES": create_texture_atlas runs on the
\* folder into atlas_out; what it raises leaves main.
Job ==
    /\ pc = "loop"
    /\ \E fault \in Faults, room \in Rooms :
        LET folders == VectorFolders(tree)
            vector_dir == folders[fi]
            atlas_out == AtlasOut(vector_dir.path)
            size == ICON_SIZES[si]
            res == create_texture_atlas(vector_dir.files, Unrenderable, out[atlas_out],
                                        size, fault, room, <<run, fi>>)
        IN /\ out' = [out EXCEPT ![atlas_out] = res.out]
           /\ last' = [run |-> run, fi |-> fi, size |-> size,
                       outcome |-> res.outcome]
           /\ started' = started \cup {<<fi, size>>}
           /\ clean' = (clean /\ ~Raised(res.outcome))
           /\ IF Raised(res.outcome) THEN pc' = "crashed" /\ si' = si /\ fi' = fi
              ELSE IF si < Len(ICON_SIZES) THEN pc' = "loop" /\ si' = si + 1 /\ fi' = fi
              ELSE IF fi < Len(folders) THEN pc' = "folder" /\ si' = 1 /\ fi' = fi + 1
              ELSE pc' = "done" /\ si' = si /\ fi' = fi
    /\ UNCHANGED <<tree, run, probe>>

\* Between two starts the source tree is edited.
EditSources ==
    /\ pc \in {"done", "crashed"}
    /\ run < MaxRuns
    /\ tree' \in Trees
    /\ pc' = "idle"
    /\ UNCHANGED <<out, fi, si, run, last, started, clean, probe>>

Next == StartMain \/ EnterFolder \/ Job \/ EditSources

Spec == Init /\ [][Next]_vars

(***************************************************************************)
(* The functions applied on their own.  main's variables stay parked.      *)
(***************************************************************************)
Parked ==
    /\ tree = <<>>
    /\ out = [p \in OutPaths |-> NoFolder]
    /\ pc = "probe"
    /\ fi = 1
    /\ si = 1
    /\ run = 0
    /\ last = [run |-> 0, fi |-> 0, size |-> 0, outcome |-> "none"]
    /\ started = {}
    /\ clean = TRUE

mainVars == <<tree, out, pc, fi, si, run, last, started, clean>>

\* The layout of lines 96-105 for total_icons icons in cols columns.
Layout(total_icons, cols, icon_size) ==
    [rows |-> GridRows(total_icons, cols),
     canvas |-> AtlasSize(total_icons, cols, icon_size),
     placements |->
        [k \in 1..total_icons |->
            [col |-> Col(k - 1, cols), row |-> Row(k - 1, cols),
             x |-> PasteOrigin(k - 1, cols, icon_size)[1],
             y |-> PasteOrigin(k - 1, cols, icon_size)[2]]]]

LayoutSizes == (1..MaxSize) \cup SizeSet

InitLayout ==
    /\ Parked
    /\ \E n \in 0..MaxCount, c \in 1..MaxCols, s \in LayoutSizes :
        probe = [fn |-> "layout", done |-> FALSE, n |-> n, cols |-> c, size |-> s]

ApplyLayout ==
    /\ probe.fn = "layout"
    /\ ~probe.done
    /\ probe' = [fn |-> "layout", done |-> TRUE, n |-> probe.n,
                 cols |-> probe.cols, size |-> probe.size,
                 layout |-> Layout(probe.n, probe.cols, probe.size)]
    /\ UNCHANGED mainVars

SpecLayout == InitLayout /\ [][ApplyLayout]_vars

\* Discovery and index assignment (lines 91, 103, 109) on a folder of files:
\* a.svg, a-b.svg, ab.svg, b.svg, B.svg, .svg, a.png
DiscoverNames ==
    {<<97>> \o SvgExt, <<97, 45, 98>> \o SvgExt, <<97, 98>> \o SvgExt,
     <<98>> \o SvgExt, <<66>> \o SvgExt, SvgExt, <<97, 46, 112, 110, 103>>}

InitDiscover ==
    /\ Parked
    /\ \E S \in SUBSET DiscoverNames :
        probe = [fn |-> "discover", done |-> FALSE, folder |-> S]

ApplyDiscover ==
    /\ probe.fn = "discover"
    /\ ~probe.done
    /\ LET svg_files == SortPaths(Glob(probe.folder))
       IN probe' = [fn |-> "discover", done |-> TRUE, folder |-> probe.folder,
                    svg_files |-> svg_files,
                    lines |-> MappingLines(svg_files, GRID_COLS)]
    /\ UNCHANGED mainVars

SpecDiscover == InitDiscover /\ [][ApplyDiscover]_vars

\* A mutant of WhitePixel: the alpha forced to opaque.
WhitePixelOpaque(p) == IF p[4] # 0 THEN <<255, 255, 255, 255>> ELSE p

\* Lines 72-74: r, g, b, a = pix[x, y]; if a: pix[x, y] = (255, 255, 255, a)
WhitePixel(p) == IF p[4] # 0 THEN <<255, 255, 255, p[4]>> ELSE p

\* The pass of lines 69-75 over every pixel of the image.
WhitePass(img) ==
    [w |-> img.w, h |-> img.h,
     pix |-> [xy \in DOMAIN img.pix |-> WhitePixel(img.pix[xy])]]

\* Pixels (r, g, b, a): transparent with colour, faint, opaque.
Palette == {<<12, 34, 56, 0>>, <<200, 0, 7, 1>>, <<0, 0, 0, 255>>}

\* The images img.resize((size, size)) may give.
Images(size) ==
    {[w |-> size, h |-> size, pix |-> f] :
        f \in [(0..size - 1) \X (0..size - 1) -> Palette]}

InitWhite ==
    /\ Parked
    /\ \E size \in 1..MaxSide : \E img \in Images(size) :
        probe = [fn |-> "white", done |-> FALSE, img |-> img]

ApplyWhite ==
    /\ probe.fn = "white"
    /\ ~probe.done
    /\ probe' = [fn |-> "white", done |-> TRUE, img |-> probe.img,
                 result |-> WhitePass(probe.img)]
    /\ UNCHANGED mainVars

SpecWhite == InitWhite /\ [][ApplyWhite]_vars

(***************************************************************************)
(* Properties                                                              *)
(***************************************************************************)

\* Reading a mapping file.  Positions of the byte b in s; the pieces of s
\* between the occurrences of b.
Positions(s, b) == {k \in 1..Len(s) : s[k] = b}

RECURSIVE Split(_, _)
Split(s, b) ==
    IF Positions(s, b) = {} THEN <<s>>
    ELSE LET k == CHOOSE k \in Positions(s, b) : \A h \in Positions(s, b) : k <= h
         IN <<SubSeq(s, 1, k - 1)>> \o Split(SubSeq(s, k + 1, Len(s)), b)

\* The lines of a file; a last line without its line feed counts.
FileLines(bytes) ==
    LET pieces == Split(bytes, 10)
    IN IF pieces[Len(pieces)] = <<>> THEN SubSeq(pieces, 1, Len(pieces) - 1)
       ELSE pieces

\* The number a field prints, blanks before it allowed; -1 when it is none.
RECURSIVE ParseNat(_)
ParseNat(s) ==
    IF s = <<>> THEN -1
    ELSE IF Head(s) = 32 THEN ParseNat(Tail(s))
    ELSE IF \E k \in 1..Len(s) : s[k] \notin 48..57 THEN -1
    ELSE IF Len(s) = 1 THEN s[1] - 48
    ELSE 10 * ParseNat(SubSeq(s, 1, Len(s) - 1)) + (s[Len(s)] - 48)

\* The entry a mapping line prints: ID, name, column, row between tabs.
ReadLine(line) ==
    LET fields == Split(line, 9)
    IN IF Len(fields) = 4
       THEN [idx |-> ParseNat(fields[1]), name |-> fields[2],
             col |-> ParseNat(fields[3]), row |-> ParseNat(fields[4])]
       ELSE [idx |-> -1, name |-> line, col |-> -1, row |-> -1]

\* The entries of a mapping file: its lines after the four of the header.
IndexEntries(bytes) ==
    LET ls == FileLines(bytes)
    IN [i \in 1..(IF Len(ls) > 4 THEN Len(ls) - 4 ELSE 0) |-> ReadLine(ls[i + 4])]

\* The row count the header of a mapping file records, -1 when it has none.
IndexRows(bytes) ==
    LET ls == FileLines(bytes)
        label == Utf8(RowsLabel)
        from(l) == {k \in 1..Len(l) - Len(label) + 1 :
                        SubSeq(l, k, k + Len(label) - 1) = label}
    IN IF Len(ls) < 3 \/ from(ls[3]) = {} THEN -1
       ELSE LET l == ls[3]
                k == CHOOSE k \in from(l) : TRUE
            IN ParseNat(SubSeq(l, k + Len(label), Len(l)))

\* C1: in an output folder, the mapping file and the atlas written by one
\* call of create_texture_atlas agree: the file has a line for each of the N
\* pastes, and line i names the stem of the one source whose raster was pasted
\* at (col * icon_size, row * icon_size), col and row being those the line
\* prints.
C1_IndexMatchesAtlas ==
    \A p \in OutPaths : \A a \in out[p].atlases : \A f \in out[p].indexes :
        (a.job = f.job /\ a.size = f.size) =>
            LET lines == IndexEntries(f.bytes)
            IN /\ Len(lines) = Len(a.pastes)
               /\ \A i \in 1..Len(lines) :
                    LET l == lines[i]
                        at == <<l.col * a.size, l.row * a.size>>
                        here == {k \in DOMAIN a.pastes : a.pastes[k].at = at}
                    IN /\ l.idx = i - 1
                       /\ here = {i}
                       /\ a.pastes[i].img = Raster(a.pastes[i].img.file, a.size)
                       /\ Utf8(Stem(a.pastes[i].img.file)) = l.name

\* C2: after a call whose index write failed, the atlas that call saved is
\* not in the output folder (no complete index of that call stands beside it).
C2_NoAtlasWithoutIndex ==
    last.outcome = "index_error" =>
        \A p \in OutPaths : \A a \in out[p].atlases :
            (a.job = <<last.run, last.fi>> /\ a.size = last.size) =>
                \E f \in out[p].indexes :
                    f.size = a.size /\ f.job = a.job /\ f.complete

\* C3: when main has ended and a job of this start failed on a render error
\* or a write error, every job of the iteration was started, also those
\* after the job that failed.
C3_LaterJobsStillRun ==
    (/\ pc \in {"done", "crashed"}
     /\ last.run = run
     /\ last.outcome \in
            {"render_error", "mkdir_error", "atlas_error", "index_error"}) =>
        started = {<<k, s>> : k \in 1..Len(VectorFolders(tree)), s \in SizeSet}

\* C4: a job over a folder with an unrenderable source does not fail on it:
\* unless a write or a print is refused, the atlas and an index of N entries
\* are written.
C4_FallbackKeepsJob ==
    (last.run = run /\ pc # "idle"
        /\ Glob(VectorFolders(tree)[last.fi].files) \cap Unrenderable # {}) =>
        LET n == Cardinality(Glob(VectorFolders(tree)[last.fi].files))
            o == out[AtlasOut(VectorFolders(tree)[last.fi].path)]
        IN \/ last.outcome \in
                {"mkdir_error", "atlas_error", "index_error", "print_error"}
           \/ /\ last.outcome = "ok"
              /\ \E f \in o.indexes :
                    /\ f.size = last.size /\ f.job = <<last.run, last.fi>>
                    /\ f.complete /\ Len(IndexEntries(f.bytes)) = n
              /\ \E a \in o.atlases :
                    /\ a.size = last.size /\ a.job = <<last.run, last.fi>>
                    /\ Len(a.pastes) = n

\* C5 (as claimed): the identifiers on the mapping lines ascend
\* lexicographically.
C5_StemsAscend ==
    (probe.fn = "discover" /\ probe.done) =>
        \A i \in DOMAIN probe.lines : \A j \in DOMAIN probe.lines :
            i < j => StrLess(probe.lines[i].name, probe.lines[j].name)

\* C5 (amended): the indices follow the lexicographic order of the file names,
\* extension included; line i carries index i and the stem of the i-th file,
\* and the files listed are exactly the *.svg files of the folder.
C5_FileNamesAscend ==
    (probe.fn = "discover" /\ probe.done) =>
        /\ {probe.svg_files[k] : k \in DOMAIN probe.svg_files}
             = {n \in probe.folder : EndsWith(n, SvgExt)}
        /\ Len(probe.lines) = Len(probe.svg_files)
        /\ \A i \in DOMAIN probe.lines :
            /\ probe.lines[i].idx = i - 1
            /\ probe.lines[i].name = Stem(probe.svg_files[i])
            /\ \A j \in DOMAIN probe.lines :
                i < j => StrLess(probe.svg_files[i], probe.svg_files[j])

\* C5 witness: a listing where a later line's stem is smaller than an
\* earlier one's (a-b before a).
C5_Witness ==
    /\ probe.fn = "discover" /\ probe.done
    /\ \E i \in DOMAIN probe.lines : \E j \in DOMAIN probe.lines :
        i < j /\ StrLess(probe.lines[j].name, probe.lines[i].name)

\* C6: a job over a folder without SVG files leaves the output folder as it
\* was, not even created, and raises nothing.
C6_EmptyFolderNoOp ==
    [][(pc = "loop" /\ Glob(VectorFolders(tree)[fi].files) = {}) =>
        (out' = out /\ pc' # "crashed" /\ last'.outcome = "skip")]_vars

\* C7: rows is the ceiling of N / C, the canvas is (C*S, rows*S), and
\* placement i is (i mod C, i div C) at pixels inside the canvas.
C7_LayoutInCanvas ==
    (probe.fn = "layout" /\ probe.done) =>
        LET n == probe.n
            c == probe.cols
            s == probe.size
            L == probe.layout
        IN /\ L.rows * c >= n
           /\ (L.rows - 1) * c < n
           /\ L.canvas = <<c * s, L.rows * s>>
           /\ Len(L.placements) = n
           /\ \A i \in 0..n - 1 :
                LET p == L.placements[i + 1]
                IN /\ p.col = i % c
                   /\ p.row = i \div c
                   /\ p.x = p.col * s
                   /\ p.y = p.row * s
                   /\ p.x < L.canvas[1]
                   /\ p.y < L.canvas[2]
           /\ (n = 23 /\ c = 20) =>
                /\ L.rows = 2
                /\ L.placements[21].col = 0
                /\ L.placements[21].row = 1

\* C7 witness: 23 icons in 20 columns laid out in 2 rows.
C7_Witness ==
    /\ probe.fn = "layout" /\ probe.done
    /\ probe.n = 23 /\ probe.cols = 20
    /\ probe.layout.rows = 2

\* C8: two different icons never get the same cell, and their
\* icon_size x icon_size regions do not overlap.
C8_PlacementsDisjoint ==
    (probe.fn = "layout" /\ probe.done) =>
        LET s == probe.size
            P == probe.layout.placements
        IN \A i \in DOMAIN P : \A j \in DOMAIN P :
            i # j =>
                /\ <<P[i].col, P[i].row>> # <<P[j].col, P[j].row>>
                /\ \/ P[i].x + s <= P[j].x
                   \/ P[j].x + s <= P[i].x
                   \/ P[i].y + s <= P[j].y
                   \/ P[j].y + s <= P[i].y

\* C8 witness: a layout of several rows with several icons in a row.
C8_Witness ==
    /\ probe.fn = "layout" /\ probe.done
    /\ probe.cols >= 2
    /\ probe.n > 2 * probe.cols

\* C9: the white pass keeps the dimensions and every alpha, turns every pixel
\* with alpha > 0 into (255, 255, 255, alpha) and leaves the others alone.
C9_WhiteKeepsAlpha ==
    (probe.fn = "white" /\ probe.done) =>
        LET a == probe.img
            b == probe.result
        IN /\ b.w = a.w
           /\ b.h = a.h
           /\ DOMAIN b.pix = DOMAIN a.pix
           /\ \A xy \in DOMAIN a.pix :
                /\ b.pix[xy][4] = a.pix[xy][4]
                /\ a.pix[xy][4] > 0 =>
                     b.pix[xy] = <<255, 255, 255, a.pix[xy][4]>>
                /\ a.pix[xy][4] = 0 => b.pix[xy] = a.pix[xy]

\* C9 witness: an image with a coloured transparent pixel and a coloured
\* faint pixel has been through the pass.
C9_Witness ==
    /\ probe.fn = "white" /\ probe.done
    /\ \E xy \in DOMAIN probe.img.pix : probe.img.pix[xy] = <<12, 34, 56, 0>>
    /\ \E xy \in DOMAIN probe.img.pix :
        /\ probe.img.pix[xy] = <<200, 0, 7, 1>>
        /\ probe.result.pix[xy] = <<255, 255, 255, 1>>

\* C10: while every call so far has completed, every atlas of a size in an
\* output folder has the row count the index of that size records.
C10_NoStaleAtlas ==
    clean =>
        \A p \in OutPaths : \A f \in out[p].indexes : \A a \in out[p].atlases :
            a.size = f.size => a.rows = IndexRows(f.bytes)

====
